---------------------------- MODULE Spec2Model ----------------------------
(***************************************************************************)
(* Model of the analytic glyph coverage evaluator (the WGSL function       *)
(* computeCoverage) and of the font tables built by load_font_data.        *)
(*                                                                         *)
(* Numbers.  The shader computes in f32.  The model computes in exact      *)
(* rational arithmetic: a number is a pair <<n, d>> with d >= 0, in lowest *)
(* terms.  d = 0 encodes the non-finite results of a division by zero:     *)
(* <<1,0>> is +Inf, <<-1,0>> is -Inf and <<0,0>> is NaN.  sqrt is rounded  *)
(* down to a multiple of 1/(d*SqrtDen) and is exact on perfect squares.    *)
(***************************************************************************)
EXTENDS Integers, Sequences, FiniteSets, TLC

(***************************************************************************)
(* Bounds of the model.                                                    *)
(***************************************************************************)
\* y-coordinates of the test curves run over k/10, k \in -MaxY..MaxY
MaxY == 2
\* pixel rows sampled for a glyph curve: uv.y = k/10, k \in -MaxUV..MaxUV
MaxUV == 2
\* resolution of the rounded square root
SqrtDen == 100

(***************************************************************************)
(* Rational arithmetic.                                                    *)
(***************************************************************************)
IAbs(i) == IF i < 0 THEN -i ELSE i

RECURSIVE GCD(_, _)
GCD(m, n) == IF n = 0 THEN m ELSE GCD(n, m % n)

\* n/d in lowest terms with a positive denominator (d # 0)
Rat(n, d) ==
    LET g == GCD(IAbs(n), IAbs(d))
        s == IF d < 0 THEN -1 ELSE 1
    IN  <<s * (n \div g), IAbs(d) \div g>>

Zero == <<0, 1>>
One == <<1, 1>>
Two == <<2, 1>>
Half == <<1, 2>>
MinusOne == <<-1, 1>>
NaN == <<0, 0>>
PosInf == <<1, 0>>
NegInf == <<-1, 0>>

IsFinite(r) == r[2] # 0

Neg(r) == <<-r[1], r[2]>>

Add(r, q) ==
    LET g == GCD(r[2], q[2])
        l == (r[2] \div g) * q[2]
    IN  Rat(r[1] * (l \div r[2]) + q[1] * (l \div q[2]), l)

Sub(r, q) == Add(r, Neg(q))

Mul(r, q) ==
    LET g1 == GCD(IAbs(r[1]), q[2])
        g2 == GCD(IAbs(q[1]), r[2])
    IN  Rat((r[1] \div g1) * (q[1] \div g2), (r[2] \div g2) * (q[2] \div g1))

\* IEEE quotient of two finite numbers; a zero divisor gives +-Inf or NaN
Quot(r, q) ==
    IF q[1] = 0
    THEN (IF r[1] > 0 THEN PosInf ELSE IF r[1] < 0 THEN NegInf ELSE NaN)
    ELSE Mul(r, Rat(q[2], q[1]))

\* Comparisons.  Every comparison with NaN is false.
Lt(r, q) ==
    IF r = NaN \/ q = NaN THEN FALSE
    ELSE IF r[2] = 0 /\ q[2] = 0 THEN r[1] < q[1]
    ELSE IF r[2] = 0 THEN r[1] < 0
    ELSE IF q[2] = 0 THEN q[1] > 0
    ELSE r[1] * q[2] < q[1] * r[2]

Gt(r, q) == Lt(q, r)

Le(r, q) == r # NaN /\ q # NaN /\ ~Lt(q, r)

Ge(r, q) == Le(q, r)

RAbs(r) == <<IAbs(r[1]), r[2]>>

RMin(r, q) == IF Lt(q, r) THEN q ELSE r

RMax(r, q) == IF Lt(r, q) THEN q ELSE r

\* WGSL clamp(e, low, high) = min(max(e, low), high)
clamp(e, low, high) == RMin(RMax(e, low), high)

\* largest k with k*k <= n, by bisection on lo..hi
RECURSIVE ISqrtIn(_, _, _)
ISqrtIn(n, lo, hi) ==
    IF lo >= hi THEN lo
    ELSE LET mid == (lo + hi + 1) \div 2
         IN  IF mid * mid <= n THEN ISqrtIn(n, mid, hi) ELSE ISqrtIn(n, lo, mid - 1)

ISqrt(n) == ISqrtIn(n, 0, IF n < 46340 THEN n ELSE 46340)

\* sqrt of a non-negative rational
sqrt(r) == Rat(ISqrt(r[1] * r[2] * SqrtDen * SqrtDen), r[2] * SqrtDen)

(***************************************************************************)
(* vec2<f32>                                                               *)
(***************************************************************************)
vec2(x, y) == [x |-> x, y |-> y]

VAdd(u, v) == vec2(Add(u.x, v.x), Add(u.y, v.y))

VSub(u, v) == vec2(Sub(u.x, v.x), Sub(u.y, v.y))

VScale(k, v) == vec2(Mul(k, v.x), Mul(k, v.y))

Origin == vec2(Zero, Zero)

Curve(q0, q1, q2) == [p0 |-> q0, p1 |-> q1, p2 |-> q2]


(***************************************************************************)
(* load_font_data: the glyph table and the curve table.                    *)
(***************************************************************************)
Glyph(start, count) == [start |-> start, count |-> count]

\* the tables load_font_data returns: one glyph, one curve
load_font_data ==
    [glyphs |-> <<Glyph(0, 1)>>,
     curves |-> <<Curve(vec2(Zero, Zero), vec2(Half, Half), vec2(One, Zero))>>]

\* 0-based indices of a glyph's curves in the curve table
GlyphRange(g) == g.start..(g.start + g.count - 1)

(***************************************************************************)
(* computeCoverage, statement by statement.                                *)
(***************************************************************************)
\* line 9: 1.0 / (antiAliasingWindowSize * fwidth(uv)), component-wise
InverseDiameter(windowSize, fw) ==
    vec2(Quot(One, Mul(windowSize, fw.x)), Quot(One, Mul(windowSize, fw.y)))

\* lines 12-13 with >= and <= in place of > and <
TrivialRejectNonStrict(q0, q1, q2) ==
    \/ Ge(q0.y, Zero) /\ Ge(q1.y, Zero) /\ Ge(q2.y, Zero)
    \/ Le(q0.y, Zero) /\ Le(q1.y, Zero) /\ Le(q2.y, Zero)

\* lines 12-13: the curve is entirely above or entirely below the scanline
TrivialReject(q0, q1, q2) ==
    \/ Gt(q0.y, Zero) /\ Gt(q1.y, Zero) /\ Gt(q2.y, Zero)
    \/ Lt(q0.y, Zero) /\ Lt(q1.y, Zero) /\ Lt(q2.y, Zero)

\* lines 16-18
CoefA(q0, q1, q2) == VAdd(VSub(q0, VScale(Two, q1)), q2)

CoefB(q0, q1, q2) == VSub(q0, q1)

CoefC(q0, q1, q2) == q0

\* line 24: the literal 1e-5
Epsilon == <<1, 100000>>

IsQuadratic(a) == Ge(RAbs(a.y), Epsilon)

\* line 26
Radicand(a, b, c) == Sub(Mul(b.y, b.y), Mul(a.y, c.y))

\* line 28 with < in place of <=
NoCrossingStrict(radicand) == Lt(radicand, Zero)

\* line 28
NoCrossing(radicand) == Le(radicand, Zero)

\* lines 31-32 with the two signs of s exchanged
QuadraticRootsSwapped(a, b, radicand) ==
    LET s == sqrt(radicand)
    IN  [t0 |-> Quot(Add(b.y, s), a.y), t1 |-> Quot(Sub(b.y, s), a.y)]

\* lines 30-32
QuadraticRoots(a, b, radicand) ==
    LET s == sqrt(radicand)
    IN  [t0 |-> Quot(Sub(b.y, s), a.y), t1 |-> Quot(Add(b.y, s), a.y)]

\* What a float division by zero may leave in t besides the IEEE result:
\* WGSL lets an implementation assume that no infinity or NaN arises, and
\* then the quotient is an indeterminate f32.  One value per outcome of the
\* validity test of lines 48 and 53.
Indeterminate == {MinusOne, Zero, Half, One, Two}

\* line 35: the values t = p0.y / (p0.y - p2.y) may take
LinearRootValues(q0, q2) ==
    LET divisor == Sub(q0.y, q2.y)
    IN  IF divisor = Zero
        THEN {Quot(q0.y, divisor)} \cup Indeterminate
        ELSE {Quot(q0.y, divisor)}

\* lines 36-42
LinearRoots(q0, q2, t) ==
    IF Lt(q0.y, q2.y) THEN [t0 |-> MinusOne, t1 |-> t]
                      ELSE [t0 |-> t, t1 |-> MinusOne]

\* lines 48 and 53 with t <= 1.0 in place of t < 1.0
RootValidInclusive(t) == Ge(t, Zero) /\ Le(t, One)

\* lines 48 and 53 (and 66, 71)
RootValid(t) == Ge(t, Zero) /\ Lt(t, One)

\* lines 49 and 54 (and 67, 72)
CurveX(a, b, c, t) == Add(Mul(Sub(Mul(a.x, t), Mul(Two, b.x)), t), c.x)

\* lines 50 and 55 (and 68, 73)
Ramp(x, inverseDiam) == clamp(Add(Mul(x, inverseDiam), Half), Zero, One)

\* lines 46-56: alpha
UnrotatedAlpha(a, b, c, r0, r1, invDiam) ==
    LET plus == IF RootValid(r0) THEN Ramp(CurveX(a, b, c, r0), invDiam.x) ELSE Zero
        minus == IF RootValid(r1) THEN Ramp(CurveX(a, b, c, r1), invDiam.x) ELSE Zero
    IN  Sub(plus, minus)

\* lines 60-74: rotated_alpha.  rotated_p0, rotated_p1 and rotated_p2 are
\* computed and never read: the pass reuses a, b, c, t0 and t1.
RotatedAlpha(a, b, c, r0, r1, invDiam) ==
    LET plus == IF RootValid(r0) THEN Ramp(CurveX(a, b, c, r0), invDiam.y) ELSE Zero
        minus == IF RootValid(r1) THEN Ramp(CurveX(a, b, c, r1), invDiam.y) ELSE Zero
    IN  Sub(plus, minus)

\* lines 48, 53: the roots that pass the validity test
ValidRoots(r0, r1) ==
    (IF RootValid(r0) THEN {"t0"} ELSE {}) \cup (IF RootValid(r1) THEN {"t1"} ELSE {})

\* line 80 without the clamp
FinalUnclamped(value) == value

\* line 80
FinalClamp(value) == clamp(value, Zero, One)

(***************************************************************************)
(* Inputs.                                                                 *)
(***************************************************************************)
XCoords == {Rat(-1, 2), Zero, Half}

YCoords == {Rat(k, 10) : k \in -MaxY..MaxY}

GridPoints == {vec2(x, y) : x \in XCoords, y \in YCoords}

\* curves on the grid
GridCurves == {Curve(q0, q1, q2) : q0 \in GridPoints, q1 \in GridPoints, q2 \in GridPoints}

\* curves whose y-coordinates are below the 1e-5 threshold
Tiny == <<1, 1000000>>

FlatPoints == {vec2(x, y) : x \in XCoords, y \in {Neg(Tiny), Zero, Tiny}}

FlatCurves == {Curve(q0, q1, q2) : q0 \in FlatPoints, q1 \in FlatPoints, q2 \in FlatPoints}

\* pixel positions at which a glyph curve is evaluated
PixelUVs == {vec2(x, Rat(k, 10)) : x \in {Zero, Half, One}, k \in -MaxUV..MaxUV}

\* fwidth(uv): the screen-space derivative of uv, positive in both components
FWidths == {vec2(One, One), vec2(Half, Two)}

\* antiAliasingWindowSize, positive
WindowSizes == {Half, One}

\* the curve in the frame of the pixel at u
Translate(cv, u) == Curve(VSub(cv.p0, u), VSub(cv.p1, u), VSub(cv.p2, u))

(***************************************************************************)
(* State.                                                                  *)
(***************************************************************************)
VARIABLES
    glyphs,                          \* glyph table
    curves,                          \* curve table
    enableSuperSamplingAntiAliasing, \* shader constant
    antiAliasingWindowSize,          \* shader constant
    pc,                              \* position in main / computeCoverage
    uv, p0, p1, p2,                  \* arguments of computeCoverage
    inverseDiameter,
    t0, t1,
    alpha,                           \* alpha after line 56
    rotated_alpha,
    result,                          \* the value returned
    path,                            \* which return statement was taken
    ops,                             \* root-finding operations evaluated
    hits                             \* roots that passed the validity test

vars == <<glyphs, curves, enableSuperSamplingAntiAliasing, antiAliasingWindowSize,
          pc, uv, p0, p1, p2, inverseDiameter, t0, t1, alpha, rotated_alpha,
          result, path, ops, hits>>

config == <<enableSuperSamplingAntiAliasing, antiAliasingWindowSize>>

tables == <<glyphs, curves>>

args == <<uv, p0, p1, p2, inverseDiameter>>

\* the locals of computeCoverage before line 9
FreshLocals ==
    /\ t0' = Zero
    /\ t1' = Zero
    /\ alpha' = Zero
    /\ rotated_alpha' = Zero
    /\ result' = Zero
    /\ path' = "none"
    /\ ops' = {}
    /\ hits' = {}

Init ==
    /\ glyphs = <<>>
    /\ curves = <<>>
    /\ enableSuperSamplingAntiAliasing \in BOOLEAN
    /\ antiAliasingWindowSize \in WindowSizes
    /\ pc = "main"
    /\ uv = Origin
    /\ p0 = Origin
    /\ p1 = Origin
    /\ p2 = Origin
    /\ inverseDiameter = vec2(One, One)
    /\ t0 = Zero
    /\ t1 = Zero
    /\ alpha = Zero
    /\ rotated_alpha = Zero
    /\ result = Zero
    /\ path = "none"
    /\ ops = {}
    /\ hits = {}

\* main, line 158
LoadFontData ==
    /\ pc = "main"
    /\ glyphs' = load_font_data.glyphs
    /\ curves' = load_font_data.curves
    /\ pc' = "idle"
    /\ UNCHANGED <<config, args, t0, t1, alpha, rotated_alpha, result, path, ops, hits>>

\* entry of computeCoverage up to line 9
Enter(cv, u, fw) ==
    /\ uv' = u
    /\ p0' = cv.p0
    /\ p1' = cv.p1
    /\ p2' = cv.p2
    /\ inverseDiameter' = InverseDiameter(antiAliasingWindowSize, fw)
    /\ FreshLocals
    /\ pc' = "reject"
    /\ UNCHANGED <<config, tables>>

\* computeCoverage on a curve already in the pixel-local frame
CallCurve ==
    /\ pc = "idle"
    /\ \E cv \in GridCurves \cup FlatCurves, fw \in FWidths : Enter(cv, Origin, fw)

\* computeCoverage on a curve of a glyph, for the pixel at u
CallGlyph ==
    /\ pc = "idle"
    /\ \E g \in 1..Len(glyphs), u \in PixelUVs, fw \in FWidths :
           \E i \in GlyphRange(glyphs[g]) :
               /\ i < Len(curves)
               /\ Enter(Translate(curves[i + 1], u), u, fw)

\* lines 11-13
RejectStep ==
    /\ pc = "reject"
    /\ IF TrivialReject(p0, p1, p2)
       THEN /\ result' = Zero
            /\ path' = "reject"
            /\ pc' = "done"
       ELSE /\ pc' = "solve"
            /\ UNCHANGED <<result, path>>
    /\ UNCHANGED <<config, tables, args, t0, t1, alpha, rotated_alpha, ops, hits>>

\* lines 15-43
SolveStep ==
    /\ pc = "solve"
    /\ LET a == CoefA(p0, p1, p2)
           b == CoefB(p0, p1, p2)
           c == CoefC(p0, p1, p2)
       IN  IF IsQuadratic(a)
           THEN LET radicand == Radicand(a, b, c)
                IN  IF NoCrossing(radicand)
                    THEN /\ result' = Zero
                         /\ path' = "radicand"
                         /\ ops' = {"radicand"}
                         /\ pc' = "done"
                         /\ UNCHANGED <<t0, t1>>
                    ELSE /\ t0' = QuadraticRoots(a, b, radicand).t0
                         /\ t1' = QuadraticRoots(a, b, radicand).t1
                         /\ ops' = {"radicand", "sqrt", "quadratic"}
                         /\ pc' = "alpha"
                         /\ UNCHANGED <<result, path>>
           ELSE \E t \in LinearRootValues(p0, p2) :
                    /\ t0' = LinearRoots(p0, p2, t).t0
                    /\ t1' = LinearRoots(p0, p2, t).t1
                    /\ ops' = {"linear"}
                    /\ pc' = "alpha"
                    /\ UNCHANGED <<result, path>>
    /\ UNCHANGED <<config, tables, args, alpha, rotated_alpha, hits>>

\* lines 45-80
AlphaStep ==
    /\ pc = "alpha"
    /\ LET a == CoefA(p0, p1, p2)
           b == CoefB(p0, p1, p2)
           c == CoefC(p0, p1, p2)
           al == UnrotatedAlpha(a, b, c, t0, t1, inverseDiameter)
           ra == IF enableSuperSamplingAntiAliasing
                 THEN RotatedAlpha(a, b, c, t0, t1, inverseDiameter)
                 ELSE Zero
       IN  /\ alpha' = al
           /\ rotated_alpha' = ra
           /\ hits' = ValidRoots(t0, t1)
           /\ result' = FinalClamp(Add(al, ra))
    /\ path' = "final"
    /\ pc' = "done"
    /\ UNCHANGED <<config, tables, args, t0, t1, ops>>

\* the caller takes the value; the frame of computeCoverage is gone
Return ==
    /\ pc = "done"
    /\ pc' = "idle"
    /\ uv' = Origin
    /\ p0' = Origin
    /\ p1' = Origin
    /\ p2' = Origin
    /\ inverseDiameter' = vec2(One, One)
    /\ FreshLocals
    /\ UNCHANGED <<config, tables>>

Next ==
    \/ LoadFontData
    \/ CallCurve
    \/ CallGlyph
    \/ RejectStep
    \/ SolveStep
    \/ AlphaStep
    \/ Return

Spec == Init /\ [][Next]_vars

(***************************************************************************)
(* Properties.                                                             *)
(***************************************************************************)
Returned == pc = "done"

\* the call went through root finding (lines 15-43)
Solved == pc = "alpha" \/ (pc = "done" /\ path # "reject")

AllAbove == p0.y[1] > 0 /\ p1.y[1] > 0 /\ p2.y[1] > 0

AllBelow == p0.y[1] < 0 /\ p1.y[1] < 0 /\ p2.y[1] < 0

\* C1: the value computeCoverage returns lies in [0, 1], whichever return
\* statement is taken (trivial reject, non-positive radicand, final clamp).
C1_ResultInUnitInterval ==
    Returned =>
        /\ path \in {"reject", "radicand", "final"}
        /\ result[2] > 0
        /\ 0 <= result[1]
        /\ result[1] <= result[2]

\* the final return with the rotated pass added and a sum above 1
C1_Witness ==
    /\ Returned
    /\ path = "final"
    /\ enableSuperSamplingAntiAliasing
    /\ Gt(Add(alpha, rotated_alpha), One)
    /\ result = One

\* C2: computeCoverage returns its signed delta unclamped: the value returned
\* is the sum of the crossing contributions, negative when only t1 is valid
\* and its ramp is positive.
C2_SignedDeltaUnclamped ==
    (Returned /\ path = "final") =>
        /\ result = Add(alpha, rotated_alpha)
        /\ (hits = {"t1"} /\ Lt(alpha, Zero)) => Lt(result, Zero)

\* C3: a curve with all three y strictly positive or all strictly negative
\* returns exactly 0 before any root-finding operation; no other curve is
\* rejected by this test.
C3_TrivialReject ==
    /\ (pc \in {"solve", "alpha", "done"} /\ (AllAbove \/ AllBelow)) =>
           /\ pc = "done"
           /\ path = "reject"
           /\ result = Zero
           /\ ops = {}
    /\ path = "reject" => (AllAbove \/ AllBelow)

C3_Witness ==
    /\ Returned
    /\ path = "reject"
    /\ AllBelow
    /\ ops = {}

\* C4: in the quadratic branch a radicand that is zero or negative makes
\* computeCoverage return exactly 0 without computing a root.
C4_NonPositiveRadicand ==
    LET a == CoefA(p0, p1, p2)
        b == CoefB(p0, p1, p2)
        c == CoefC(p0, p1, p2)
        radicand == Sub(Mul(b.y, b.y), Mul(a.y, c.y))
    IN  (Solved /\ IAbs(a.y[1]) * 100000 >= a.y[2] /\ radicand[1] <= 0) =>
            /\ pc = "done"
            /\ path = "radicand"
            /\ result = Zero
            /\ t0 = Zero
            /\ t1 = Zero
            /\ ops = {"radicand"}

\* an exactly tangent curve has returned
C4_Witness ==
    /\ Returned
    /\ path = "radicand"
    /\ Radicand(CoefA(p0, p1, p2), CoefB(p0, p1, p2), CoefC(p0, p1, p2)) = Zero
    /\ p0.x # p2.x
    /\ result = Zero

\* computeCoverage as a function of its inputs; t is the value line 35
\* leaves in its local t when the linear branch is taken
Coverage(q0, q1, q2, invDiam, superSampling, t) ==
    LET a == CoefA(q0, q1, q2)
        b == CoefB(q0, q1, q2)
        c == CoefC(q0, q1, q2)
        quadratic == IsQuadratic(a)
        radicand == Radicand(a, b, c)
        roots == IF quadratic THEN QuadraticRoots(a, b, radicand)
                              ELSE LinearRoots(q0, q2, t)
    IN  IF TrivialReject(q0, q1, q2) THEN Zero
        ELSE IF quadratic /\ NoCrossing(radicand) THEN Zero
        ELSE FinalClamp(Add(UnrotatedAlpha(a, b, c, roots.t0, roots.t1, invDiam),
                            IF superSampling
                            THEN RotatedAlpha(a, b, c, roots.t0, roots.t1, invDiam)
                            ELSE Zero))

Reflect(q) == vec2(q.x, Neg(q.y))

\* C5: negating the y-coordinates of p0, p1 and p2 negates the value
\* computeCoverage returns.
C5_ReflectionSymmetry ==
    Returned =>
        \A t \in LinearRootValues(Reflect(p0), Reflect(p2)) :
            Coverage(Reflect(p0), Reflect(p1), Reflect(p2), inverseDiameter,
                     enableSuperSamplingAntiAliasing, t) = Neg(result)

\* the curve of load_font_data seen from uv = (0.5, 0.1) and uv = (0.5, -0.1)
C6_Inside == Curve(vec2(Rat(-1, 2), Rat(-1, 10)), vec2(Zero, Rat(4, 10)), vec2(Half, Rat(-1, 10)))

C6_Below == Curve(vec2(Rat(-1, 2), Rat(1, 10)), vec2(Zero, Rat(6, 10)), vec2(Half, Rat(1, 10)))

\* C6: with an anti-aliasing width of at most 0.5 (inverseDiameter.x >= 2)
\* the bump curve yields 1 at uv = (0.5, 0.1); it yields 0 at uv = (0.5, -0.1).
C6_EndToEnd ==
    Returned =>
        /\ (Curve(p0, p1, p2) = C6_Inside /\ inverseDiameter.x[1] >= 2 * inverseDiameter.x[2])
               => result = One
        /\ Curve(p0, p1, p2) = C6_Below => result = Zero

\* the glyph's curve evaluated for the pixel at (0.5, 0.1), both roots valid
C6_Witness ==
    /\ Returned
    /\ uv = vec2(Half, Rat(1, 10))
    /\ Len(curves) = 1
    /\ Curve(p0, p1, p2) = Translate(curves[1], uv)
    /\ Curve(p0, p1, p2) = C6_Inside
    /\ Le(Quot(One, inverseDiameter.x), Half)
    /\ hits = {"t0", "t1"}
    /\ result = One

\* curves i..j (0-based) of the table chain into one closed loop
ClosedLoop(i, j) ==
    /\ \A k \in i..(j - 1) : curves[k + 1].p2 = curves[k + 2].p0
    /\ curves[j + 1].p2 = curves[i + 1].p0

\* the range of g splits into consecutive closed loops
ClosedLoops(g) ==
    LET last == g.start + g.count - 1
    IN  \E firsts \in SUBSET (g.start..last) :
            /\ g.count > 0 => g.start \in firsts
            /\ \A i \in firsts :
                   LET later == {f \in firsts : f > i}
                       j == IF later = {} THEN last
                            ELSE (CHOOSE f \in later : \A h \in later : f <= h) - 1
                   IN  ClosedLoop(i, j)

\* C7: every glyph of the loaded tables denotes a range inside the curve
\* table whose curves chain into closed contour loops.
C7_ClosedCurveRanges ==
    pc # "main" =>
        \A g \in 1..Len(glyphs) :
            /\ glyphs[g].start + glyphs[g].count <= Len(curves)
            /\ ClosedLoops(glyphs[g])

Rotate(q) == vec2(q.y, Neg(q.x))

\* the crossing accumulation of the curve rotated by 90 degrees: its own
\* roots, its own x-coordinate at them, the ramp scaled by invDiamY
RotatedCrossings(q0, q1, q2, invDiamY, t) ==
    LET r0 == Rotate(q0)
        r1 == Rotate(q1)
        r2 == Rotate(q2)
        a == CoefA(r0, r1, r2)
        b == CoefB(r0, r1, r2)
        c == CoefC(r0, r1, r2)
        quadratic == IsQuadratic(a)
        radicand == Radicand(a, b, c)
        roots == IF quadratic THEN QuadraticRoots(a, b, radicand)
                              ELSE LinearRoots(r0, r2, t)
    IN  IF TrivialReject(r0, r1, r2) THEN Zero
        ELSE IF quadratic /\ NoCrossing(radicand) THEN Zero
        ELSE UnrotatedAlpha(a, b, c, roots.t0, roots.t1, vec2(invDiamY, invDiamY))

\* coordinates that are multiples of 1/10
OnTenths(q) == 10 % q.x[2] = 0 /\ 10 % q.y[2] = 0

\* C8: with supersampling on, the value returned is the clamp of the
\* unrotated contribution plus the crossing accumulation of the rotated
\* curve; with supersampling off it is the clamp of the unrotated
\* contribution alone.  (Stated for curves with coordinates in tenths.)
C8_RotatedPass ==
    (Returned /\ path = "final" /\ OnTenths(p0) /\ OnTenths(p1) /\ OnTenths(p2)) =>
        IF enableSuperSamplingAntiAliasing
        THEN \E t \in LinearRootValues(Rotate(p0), Rotate(p2)) :
                 result = clamp(Add(alpha, RotatedCrossings(p0, p1, p2, inverseDiameter.y, t)),
                                Zero, One)
        ELSE result = clamp(alpha, Zero, One)

\* 0 <= t < 1 for a finite t
C9_InRange(t) == t[2] > 0 /\ 0 <= t[1] /\ t[1] < t[2]

\* clamp(x(t) * inverseDiameter.x + 0.5, 0, 1), x(t) = (a.x*t - 2*b.x)*t + c.x
C9_Contribution(t) ==
    LET a == CoefA(p0, p1, p2)
        b == CoefB(p0, p1, p2)
        c == CoefC(p0, p1, p2)
        x == Add(Mul(Sub(Mul(a.x, t), Mul(Two, b.x)), t), c.x)
        v == Add(Mul(x, inverseDiameter.x), Half)
    IN  IF v[1] < 0 THEN Zero ELSE IF v[1] > v[2] THEN One ELSE v

\* C9: a root contributes iff 0 <= t < 1; a valid t0 adds its ramp value and
\* a valid t1 subtracts its ramp value; the unrotated sum lies in [-1, 1].
C9_RootContributions ==
    (Returned /\ path = "final") =>
        /\ "t0" \in hits <=> C9_InRange(t0)
        /\ "t1" \in hits <=> C9_InRange(t1)
        /\ alpha = Sub(IF C9_InRange(t0) THEN C9_Contribution(t0) ELSE Zero,
                       IF C9_InRange(t1) THEN C9_Contribution(t1) ELSE Zero)
        /\ alpha[2] > 0
        /\ -alpha[2] <= alpha[1]
        /\ alpha[1] <= alpha[2]

\* t0 = 0 is counted and t1 = 1 is not
C9_Witness ==
    /\ Returned
    /\ path = "final"
    /\ t0 = Zero
    /\ t1 = One
    /\ hits = {"t0"}
    /\ Lt(Zero, alpha)
    /\ Lt(alpha, One)

\* C10: in the linear branch the divisor p0.y - p2.y is non-zero, t is the
\* finite quotient p0.y / (p0.y - p2.y), t1 receives it when p0.y < p2.y and
\* t0 otherwise, and the other root is -1.
C10_LinearRootDefined ==
    (Solved /\ ops = {"linear"}) =>
        /\ p0.y # p2.y
        /\ LET t == Quot(p0.y, Sub(p0.y, p2.y))
           IN  /\ IsFinite(t)
               /\ IF Lt(p0.y, p2.y) THEN t0 = MinusOne /\ t1 = t
                                    ELSE t0 = t /\ t1 = MinusOne

=============================================================================
